---- MODULE Spec2Model ----
(***************************************************************************)
(* Healthcare-AI-ML-App: a WSGI dispatcher composing independent Flask     *)
(* apps (home/admin, LOS, Disease, Patient, Image-Diagnostics, Summarizer, *)
(* Cluster, Med-GPT).  Each request handler is one action; the image       *)
(* handlers, which touch the shared upload folder, are split at their file *)
(* system calls so that two requests can interleave.                       *)
(***************************************************************************)
EXTENDS Integers, Sequences, FiniteSets, TLC

VARIABLES
    routed,           \* wsgi.py: what the dispatcher did with the last request
    session,          \* Home: session id -> value of session["admin_logged_in"]
    lastAuth,         \* Home (history): session id -> last login/logout event
    appointments,     \* Home: rows of the appointments table
    sqlite_sequence,  \* Home: AUTOINCREMENT high-water mark of the table
    assigned,         \* Home (history): the ids ever given to an appointment
    response,         \* outcome of the last request handled by a one-step handler
    models,           \* the model globals of all apps: global name -> value
    up,               \* the apps whose module has been imported
    uploads,          \* Image_Diagnostics: UPLOAD_FOLDER, file name -> file
    req,              \* Image_Diagnostics: thread -> the request it is handling
    tables,           \* the static lookup tables (module-level dicts): name -> dict
    boot,             \* Med-GPT: position and locals of the module's start-up code
    http_posts        \* number of HTTP POSTs sent to the LLM endpoint so far

dispatchVars == <<routed>>
homeVars     == <<session, lastAuth, appointments, sqlite_sequence, assigned>>
modelVars    == <<models, up>>
imageVars    == <<uploads, req>>
chatVars     == <<boot, http_posts>>
vars         == <<routed, session, lastAuth, appointments, sqlite_sequence, assigned, response,
                  models, up, uploads, req, tables, boot, http_posts>>
\* everything outside the Home app, and everything but the pending response
nonHome      == <<routed, tables, modelVars, imageVars, chatVars>>
persistent   == <<routed, tables, homeVars, modelVars, imageVars, chatVars>>

None == "None"        \* Python's None (absent key, JSON null, missing form field)

(***************************************************************************)
(* wsgi.py: DispatcherMiddleware(home_app, mounts)                         *)
(*                                                                         *)
(* A path is the sequence of its segments, each preceded by "/":           *)
(*   ""        = << >>          "/"        = << "" >>                      *)
(*   "/LOS"    = << "LOS" >>    "/LOS/"    = << "LOS", "" >>               *)
(*   "/LOS/x"  = << "LOS", "x" >>                                          *)
(* A mount key "/P" is the one-segment path << "P" >>.                     *)
(***************************************************************************)
MaxSegs == 2

Mounts ==
    [LOS |-> "los_app", Disease |-> "disease_app", Patient |-> "patient_app",
     Senti |-> "senti_app", Cluster |-> "cluster_app", chat |-> "chat_app",
     Summarizer |-> "summarizer_app"]
    @@ ("Image-Diagnostics" :> "image_app")

MountKeys == { <<p>> : p \in DOMAIN Mounts }

home_app == "home_app"

\* segments a request path is built from: the mounted names, look-alikes that
\* differ in case or carry a suffix, route names and the empty segment
Segments == (DOMAIN Mounts) \cup {"", "los", "LOSx", "predict", "admin"}

Paths == UNION { [1..n -> Segments] : n \in 0..MaxSegs }

\* the body of DispatcherMiddleware.__call__:
\*   script = PATH_INFO; path_info = ""
\*   while "/" in script:
\*       if script in mounts: app = mounts[script]; break
\*       script, last_item = script.rsplit("/", 1)
\*       path_info = "/" + last_item + path_info
\*   else: app = mounts.get(script, self.app)
\*   SCRIPT_NAME += script; PATH_INFO = path_info
RECURSIVE DispatchLoop(_, _)
DispatchLoop(script, path_info) ==
    IF Len(script) > 0
    THEN IF script \in MountKeys
         THEN [app |-> Mounts[script[1]], script_name |-> script, path_info |-> path_info]
         ELSE DispatchLoop(SubSeq(script, 1, Len(script) - 1),
                           <<script[Len(script)]>> \o path_info)
    ELSE [app |-> home_app, script_name |-> script, path_info |-> path_info]

\* a dispatcher that forgets to strip the mount prefix from PATH_INFO
application_nostrip(path) ==
    [DispatchLoop(path, << >>) EXCEPT !.path_info = path]

application(path) == DispatchLoop(path, << >>)

Dispatch ==
    \E path \in Paths :
        /\ routed' = [path |-> path] @@ application(path)
        /\ UNCHANGED <<tables, homeVars, response, modelVars, imageVars, chatVars>>

(***************************************************************************)
(* Home/app.py                                                             *)
(***************************************************************************)
Sessions == {"s1", "s2"}
MaxAppointments == 2

\* what data.get(key) / request.form.get(key) can yield: None, "" or text
TextValues  == {"a", "b"}
FieldValues == {None, ""} \cup TextValues
SlotValues  == {None, "", "x"}

Truthy(v) == v # None /\ v # ""

\* request.get_json(): a JSON object (a dict), or None for the body `null`
JsonObjects == [json : {"object"}, name : FieldValues, date : SlotValues,
                time : SlotValues, reason : SlotValues]
NoneBody    == [json |-> "null"]
JsonBodies  == {NoneBody} \cup JsonObjects

Usernames == {None, "admin", "guest"}
Passwords == {None, "admin123", "admin"}

\* the server handles one request of these routes at a time: a handler starts
\* with no response pending and the server sends what it returns
NoResponse == [route |-> "none"]
Idle == response = NoResponse

Deliver ==
    /\ response # NoResponse
    /\ response' = NoResponse
    /\ UNCHANGED persistent

\* a decorator that lets every request through
login_required_open(s, view, denied) == view

\* login_required: the wrapped view runs only when the flag is set
login_required(s, view, denied) ==
    IF ~ session[s] THEN denied ELSE view

Max(S) == CHOOSE x \in S : \A y \in S : y <= x
RowIds == { r.id : r \in appointments }

\* INTEGER PRIMARY KEY without AUTOINCREMENT: one more than the largest rowid
\* now in the table
NextId_rowid == IF appointments = {} THEN 1 ELSE Max(RowIds) + 1

\* id INTEGER PRIMARY KEY AUTOINCREMENT: one more than the largest rowid that
\* has ever been in the table, which SQLite keeps in sqlite_sequence
NextId == Max(RowIds \cup {sqlite_sequence}) + 1

\* POST /api/appointment
save_appointment ==
    /\ Idle
    /\ \E data \in JsonBodies :
        /\ IF data = NoneBody
           THEN \* data.get raises AttributeError on None: unhandled, HTTP 500
                /\ response' = [route |-> "save_appointment", status |-> 500,
                                message |-> "AttributeError", data |-> data]
                /\ UNCHANGED persistent
           ELSE IF ~ (Truthy(data.name) /\ Truthy(data.date)
                      /\ Truthy(data.time) /\ Truthy(data.reason))
           THEN /\ response' = [route |-> "save_appointment", status |-> 400,
                                message |-> "Missing data", data |-> data]
                /\ UNCHANGED persistent
           ELSE /\ sqlite_sequence < MaxAppointments
                /\ sqlite_sequence' = Max({sqlite_sequence, NextId})
                /\ assigned' = assigned \cup {NextId}
                /\ appointments' = appointments \cup
                       {[id |-> NextId, name |-> data.name, date |-> data.date,
                         time |-> data.time, reason |-> data.reason]}
                /\ response' = [route |-> "save_appointment", status |-> 200,
                                message |-> "Appointment saved successfully!", data |-> data]
                /\ UNCHANGED <<nonHome, session, lastAuth>>

\* GET /api/appointments: the route has no decorator and the body does not
\* look at the session
get_appointments ==
    /\ Idle
    /\ \E s \in Sessions :
        response' = [route |-> "get_appointments", session |-> s, status |-> 200,
                     rows |-> appointments]
    /\ UNCHANGED persistent

\* a DELETE whose WHERE clause compares with <= instead of =
delete_appointment_upto ==
    /\ Idle
    /\ \E s \in Sessions, id \in 0..(MaxAppointments + 1) :
        /\ appointments' = { r \in appointments : ~ (r.id <= id) }
        /\ response' = [route |-> "delete_appointment", session |-> s, status |-> 200,
                        message |-> "deleted successfully", id |-> id]
        /\ UNCHANGED <<nonHome, session, lastAuth, sqlite_sequence, assigned>>

\* DELETE /api/appointment/<int:id>: the route has no decorator and the body
\* does not look at the session
delete_appointment ==
    /\ Idle
    /\ \E s \in Sessions, id \in 0..(MaxAppointments + 1) :
        /\ appointments' = { r \in appointments : r.id # id }
        /\ response' = [route |-> "delete_appointment", session |-> s, status |-> 200,
                        message |-> "deleted successfully", id |-> id]
        /\ UNCHANGED <<nonHome, session, lastAuth, sqlite_sequence, assigned>>

\* a check that looks at the username only
CredentialsOk_username_only(username, password) == username = "admin"

\* line 123: username == "admin" and password == "admin123"
CredentialsOk(username, password) == username = "admin" /\ password = "admin123"

\* GET|POST /login
admin_login ==
    /\ Idle
    /\ \E s \in Sessions, method \in {"GET", "POST"},
       username \in Usernames, password \in Passwords :
        LET goodPost == method = "POST" /\ CredentialsOk(username, password)
            base == [route |-> "admin_login", session |-> s, method |-> method,
                     username |-> username, password |-> password]
        IN  /\ lastAuth' = IF goodPost THEN [lastAuth EXCEPT ![s] = "login"] ELSE lastAuth
            /\ IF session[s]
               THEN /\ response' = base @@ [status |-> 302,
                                    location |-> "admin_panel", examined |-> FALSE]
                    /\ UNCHANGED session
               ELSE IF goodPost
               THEN /\ session' = [session EXCEPT ![s] = TRUE]
                    /\ response' = base @@ [status |-> 302,
                                    location |-> "admin_panel", examined |-> TRUE]
               ELSE /\ response' = base @@ [status |-> 200,
                                    template |-> "login.html",
                                    error |-> IF method = "POST"
                                              THEN "Invalid username or password" ELSE None,
                                    examined |-> (method = "POST")]
                    /\ UNCHANGED session
            /\ UNCHANGED <<nonHome, appointments, sqlite_sequence, assigned>>

\* GET /admin, wrapped by login_required
admin_panel ==
    /\ Idle
    /\ \E s \in Sessions :
        /\ response' = login_required(s,
               [route |-> "admin_panel", session |-> s, status |-> 200,
                template |-> "admin.html", body_ran |-> TRUE, rows |-> appointments],
               [route |-> "admin_panel", session |-> s, status |-> 302,
                location |-> "admin_login", body_ran |-> FALSE, rows |-> {}])
        /\ UNCHANGED persistent

\* GET /admin/logout
admin_logout ==
    /\ Idle
    /\ \E s \in Sessions :
        /\ session' = [session EXCEPT ![s] = FALSE]
        /\ lastAuth' = [lastAuth EXCEPT ![s] = "logout"]
        /\ response' = [route |-> "admin_logout", session |-> s, status |-> 302,
                        location |-> "admin_login"]
        /\ UNCHANGED <<nonHome, appointments, sqlite_sequence, assigned>>

(***************************************************************************)
(* Model artifacts: each module's top-level code loads its own             *)
(***************************************************************************)
Apps == {"los", "disease", "patient", "image", "summarizer", "cluster"}

ModelGlobals(app) ==
    CASE app = "image"      -> {"xray_model", "mri_session"}
      [] app = "patient"    -> {"deterioration_model", "readmission_model", "MODELS_LOADED"}
      [] app = "disease"    -> {"diagnosis_model", "severity_model"}
      [] app = "los"        -> {"los_model"}
      [] app = "cluster"    -> {"rf_model", "scaler", "label_encoders"}
      [] app = "summarizer" -> {"summarizer"}

AllModelGlobals == UNION { ModelGlobals(a) : a \in Apps }

\* the values the top-level code of a module can leave in its globals
LoadResults(app) ==
    CASE app = "image" ->
            \* load_models: a missing path or a load error leaves None
            { [xray_model |-> x, mri_session |-> m] :
                  x \in {None, "TFSMLayer"}, m \in {None, "InferenceSession"} }
      [] app = "patient" ->
            \* both files present and loaded, or the try block left early
            { [deterioration_model |-> None, readmission_model |-> None,
               MODELS_LOADED |-> "False"],
              [deterioration_model |-> "gru", readmission_model |-> None,
               MODELS_LOADED |-> "False"],
              [deterioration_model |-> "gru", readmission_model |-> "gru",
               MODELS_LOADED |-> "True"] }
      [] app = "disease" ->
            { [diagnosis_model |-> "pickle", severity_model |-> "pickle"] }
      [] app = "los" ->
            { [los_model |-> "joblib"] }
      [] app = "cluster" ->
            { [rf_model |-> "joblib", scaler |-> "joblib", label_encoders |-> "joblib"] }
      [] app = "summarizer" ->
            \* the BART pipeline, or the dummy lambda when loading failed
            { [summarizer |-> "pipeline"], [summarizer |-> "dummy"] }

\* importing a module runs its top-level code once
import_module(app) ==
    /\ app \notin up
    /\ \E loaded \in LoadResults(app) :
           models' = [g \in AllModelGlobals |->
                         IF g \in DOMAIN loaded THEN loaded[g] ELSE models[g]]
    /\ up' = up \cup {app}
    /\ UNCHANGED <<routed, tables, homeVars, response, imageVars, chatVars>>

(***************************************************************************)
(* LOS app/LOS.py                                                          *)
(***************************************************************************)
\* target-encoding tables, in units of 10^-8
ADMISSION_TYPE_ENCODING ==
    ("URGENT" :> 1050514107) @@ ("ELECTIVE" :> 1110701614)
    @@ ("EW EMER." :> 609199923) @@ ("DIRECT EMER." :> 666631163)
    @@ ("EU OBSERVATION" :> 27959982) @@ ("OBSERVATION ADMIT" :> 729466506)
    @@ ("DIRECT OBSERVATION" :> 53996339) @@ ("AMBULATORY OBSERVATION" :> 8693663)
    @@ ("SURGICAL SAME DAY ADMISSION" :> 432125206)

ADMISSION_LOCATION_ENCODING ==
    ("TRANSFER FROM HOSPITAL" :> 837214280)
    @@ ("TRANSFER FROM SKILLED NURSING FACILITY" :> 1006164297)
    @@ ("INTERNAL TRANSFER TO OR FROM PSYCH" :> 850000000)
    @@ ("PHYSICIAN REFERRAL" :> 512127397) @@ ("EMERGENCY ROOM" :> 563717044)
    @@ ("PACU" :> 39633448) @@ ("PROCEDURE SITE" :> 101370599)
    @@ ("WALK-IN/SELF REFERRAL" :> 217361762)
    @@ ("INFORMATION NOT AVAILABLE" :> 500000000) @@ ("CLINIC REFERRAL" :> 892517110)

INSURANCE_OPTIONS      == {"Medicaid", "Medicare", "Other"}
LANGUAGE_OPTIONS       == {"ENGLISH", "OTHERS"}
MARITAL_STATUS_OPTIONS == {"SINGLE", "MARRIED", "WIDOWED", "DIVORCED"}
DRG_TYPE_OPTIONS       == {"HCFA", "others"}
GENDER_OPTIONS         == {"male", "female"}

LOSFields == {"admission_type", "admission_location", "insurance", "language",
              "marital_status", "drg_type", "gender", "age"}

\* what request.form.get(field) can yield: None when the field is absent,
\* "" when it was left empty, an offered option, or text that is not offered
LOSValues(field) ==
    CASE field = "admission_type"     -> {None, "URGENT", "UNLISTED"}
      [] field = "admission_location" -> {"", "PACU", "UNLISTED"}
      [] field = "insurance"          -> {None} \cup INSURANCE_OPTIONS
      [] field = "language"           -> {""} \cup LANGUAGE_OPTIONS
      [] field = "marital_status"     -> {None} \cup MARITAL_STATUS_OPTIONS
      [] field = "drg_type"           -> {""} \cup DRG_TYPE_OPTIONS
      [] field = "gender"             -> {None} \cup GENDER_OPTIONS
      [] field = "age"                -> {None, "", "45", "abc"}

LOSForms ==
    [admission_type : LOSValues("admission_type"),
     admission_location : LOSValues("admission_location"),
     insurance : LOSValues("insurance"),
     language : LOSValues("language"),
     marital_status : LOSValues("marital_status"),
     drg_type : LOSValues("drg_type"),
     gender : LOSValues("gender"),
     age : LOSValues("age")]

\* float(age): defined on numeric text; raises ValueError on any other text
NumericTexts == {"45"}
FloatRaises(text) == text \notin NumericTexts
Float(text) == CASE text = "45" -> 45

\* dict.get(key, 0)
TableGet(table, key) == IF key \in DOMAIN table THEN table[key] ELSE 0

\* an encoder that puts the two insurance columns in the other order
LOSEncode_swapped(T, form) ==
    << TableGet(T.ADMISSION_TYPE_ENCODING, form.admission_type),
       TableGet(T.ADMISSION_LOCATION_ENCODING, form.admission_location),
       Float(form.age),
       IF form.insurance = "Other" THEN 1 ELSE 0,
       IF form.insurance = "Medicare" THEN 1 ELSE 0,
       IF form.language # "ENGLISH" THEN 1 ELSE 0,
       IF form.marital_status = "MARRIED" THEN 1 ELSE 0,
       IF form.marital_status = "SINGLE" THEN 1 ELSE 0,
       IF form.marital_status = "WIDOWED" THEN 1 ELSE 0,
       IF form.drg_type = "HCFA" THEN 1 ELSE 0,
       IF form.gender = "male" THEN 1 ELSE 0 >>

\* lines 68-104: the input row handed to model.predict, with lookup tables T
LOSEncode(T, form) ==
    << TableGet(T.ADMISSION_TYPE_ENCODING, form.admission_type),
       TableGet(T.ADMISSION_LOCATION_ENCODING, form.admission_location),
       Float(form.age),
       IF form.insurance = "Medicare" THEN 1 ELSE 0,
       IF form.insurance = "Other" THEN 1 ELSE 0,
       IF form.language # "ENGLISH" THEN 1 ELSE 0,
       IF form.marital_status = "MARRIED" THEN 1 ELSE 0,
       IF form.marital_status = "SINGLE" THEN 1 ELSE 0,
       IF form.marital_status = "WIDOWED" THEN 1 ELSE 0,
       IF form.drg_type = "HCFA" THEN 1 ELSE 0,
       IF form.gender = "male" THEN 1 ELSE 0 >>

LOSFeatures(form) == LOSEncode(tables, form)

\* model.predict either returns a length of stay or raises
PredictOutcomes == {"raises", "returns"}

\* a completeness check that forgets the age field
LOSAllFilled_noage(form) == \A f \in LOSFields \ {"age"} : Truthy(form[f])

\* all([...]) over the eight submitted values
LOSAllFilled(form) == \A f \in LOSFields : Truthy(form[f])

\* GET|POST / of the LOS app
LOS_index ==
    \/ /\ Idle
       /\ "los" \in up
       /\ response' = [route |-> "LOS.index", method |-> "GET", status |-> 200,
                       template |-> "index.html", prediction |-> None,
                       predict_calls |-> 0]
       /\ UNCHANGED persistent
    \/ /\ Idle
       /\ "los" \in up
       /\ \E form \in LOSForms, outcome \in PredictOutcomes :
        LET base == [route |-> "LOS.index", method |-> "POST", status |-> 200,
                     template |-> "index.html", form |-> form]
        IN  /\ response' =
                  IF ~ LOSAllFilled(form)
                  THEN base @@ [prediction |-> "Please fill all fields",
                                predict_calls |-> 0]
                  ELSE IF FloatRaises(form.age)
                  THEN base @@ [prediction |-> "Prediction failed", predict_calls |-> 0,
                                error |-> "ValueError"]
                  ELSE IF outcome = "raises"
                  THEN base @@ [prediction |-> "Prediction failed", predict_calls |-> 1,
                                error |-> "predict", features |-> LOSFeatures(form)]
                  ELSE base @@ [prediction |-> "Predicted Length of Stay",
                                predict_calls |-> 1, features |-> LOSFeatures(form)]
            /\ UNCHANGED persistent

(***************************************************************************)
(* Disease_Severity_app/Disease.py                                         *)
(***************************************************************************)
diagnosis_map ==
    ("Asthma" :> 0) @@ ("Chronic Kidney Disease (CKD)" :> 1) @@ ("Heart Failure" :> 2)
    @@ ("Myocardial Infarction" :> 3) @@ ("Normal" :> 4) @@ ("Pneumonia" :> 5)
    @@ ("Sepsis" :> 6) @@ ("Stroke" :> 7)
severity_map == ("Mild" :> 0) @@ ("Moderate" :> 1) @@ ("Severe" :> 2)

\* reverse_*_map.get(pred, 'Unknown')
ReverseGet(map, pred) ==
    IF \E k \in DOMAIN map : map[k] = pred
    THEN CHOOSE k \in DOMAIN map : map[k] = pred
    ELSE "Unknown"

\* float("nan") is accepted by float(); NaN is written -1 (no modelled input
\* is negative) and every comparison with it is false
NaN == -1

\* submitted numbers; creatinine is in tenths of mg/dL, the others in units
DiseaseForms ==
    [age : {45, 70}, height : {170}, weight : {50, 70, 80, 95, NaN},
     systolic_bp : {120, 150}, diastolic_bp : {80, 95}, glucose : {100, 150},
     cholesterol : {200}, creatinine : {10, 15}, diabetes : {0, 1},
     hypertension : {0, 1}, sex : {"Male", "Female", "Other"}]

\* bmi = weight / ((height / 100) ** 2), compared without division:
\* bmi < x/10  <=>  weight * 100000 < x * height * height
BmiBelow(form, tenths) ==
    /\ form.weight # NaN
    /\ form.weight * 100000 < tenths * form.height * form.height

bmi_category(form) ==
    IF BmiBelow(form, 185) THEN "Underweight"
    ELSE IF BmiBelow(form, 250) THEN "Normal"
    ELSE IF BmiBelow(form, 300) THEN "Overweight" ELSE "Obese"

BoolInt(b) == IF b THEN 1 ELSE 0

\* lines 55-83: the derived features (MAP is kept as its numerator, 3 * MAP)
DiseaseFeatures(form) ==
    [age |-> form.age, bmi_category |-> bmi_category(form),
     systolic_bp |-> form.systolic_bp, diastolic_bp |-> form.diastolic_bp,
     glucose |-> form.glucose, cholesterol |-> form.cholesterol,
     creatinine |-> form.creatinine, diabetes |-> form.diabetes,
     hypertension |-> form.hypertension,
     MAP3 |-> form.systolic_bp + 2 * form.diastolic_bp,
     comorbidity_count |-> form.diabetes + form.hypertension,
     high_creatinine_flag |-> BoolInt(form.creatinine > 12),
     hyperglycemia_flag |-> BoolInt(form.glucose > 140),
     abnormal_bp_flag |-> BoolInt(form.systolic_bp > 140 \/ form.diastolic_bp > 90),
     age_creatinine_risk |-> BoolInt(form.age > 60 /\ form.creatinine > 12),
     sex_Male |-> BoolInt(form.sex = "Male"),
     sex_Other |-> BoolInt(form.sex = "Other"),
     BMI_Category_Obese |-> BoolInt(bmi_category(form) = "Obese"),
     BMI_Category_Overweight |-> BoolInt(bmi_category(form) = "Overweight"),
     BMI_Category_Underweight |-> BoolInt(bmi_category(form) = "Underweight")]

\* what can be wrong with a submitted form
FormDefects == {"none", "missing_field", "not_a_number"}

\* GET|POST / of the Disease app; nothing in it is wrapped in try
disease_predict ==
    /\ Idle
    /\ "disease" \in up
    /\ \/ response' = [route |-> "disease_predict", method |-> "GET", status |-> 200,
                       template |-> "Disease.html", diagnosis_result |-> None]
       \/ \E form \in DiseaseForms, defect \in FormDefects,
             predict \in {"raises", "returns"},
             diagnosis_pred \in {4, 6, 9}, severity_pred \in {0, 2} :
            response' =
                IF defect = "missing_field"
                THEN [route |-> "disease_predict", method |-> "POST", status |-> 400,
                      unhandled |-> "BadRequestKeyError"]
                ELSE IF defect = "not_a_number"
                THEN [route |-> "disease_predict", method |-> "POST", status |-> 500,
                      unhandled |-> "ValueError"]
                ELSE IF predict = "raises"
                THEN \* the features were derived, then model.predict raised
                     [route |-> "disease_predict", method |-> "POST", status |-> 500,
                      unhandled |-> "predict", form |-> form,
                      features |-> DiseaseFeatures(form)]
                ELSE [route |-> "disease_predict", method |-> "POST", status |-> 200,
                      template |-> "Disease.html", form |-> form,
                      features |-> DiseaseFeatures(form),
                      diagnosis_result |->
                          [disease |-> ReverseGet(diagnosis_map, diagnosis_pred),
                           severity |-> ReverseGet(severity_map, severity_pred)]]
    /\ UNCHANGED persistent

(***************************************************************************)
(* Patient_detoriation_readmission/patient.py                              *)
(***************************************************************************)
\* probabilities in percent
Probabilities == {20, 50, 80}

RiskStatus(prob) == IF prob > 70 THEN "High" ELSE IF prob > 40 THEN "Moderate" ELSE "Low"

\* POST /predict of the Patient app
predict_risk ==
    /\ Idle
    /\ "patient" \in up
    /\ \E defect \in FormDefects, predict \in {"raises", "returns"},
          det_prob \in Probabilities, readm_prob \in Probabilities :
        response' =
            IF models["MODELS_LOADED"] # "True"
            THEN [route |-> "predict_risk", status |-> 200,
                  result |-> [error |-> "Models not loaded"]]
            ELSE IF defect # "none" \/ predict = "raises"
            THEN [route |-> "predict_risk", status |-> 200,
                  result |-> [error |-> "Error processing input or during prediction"]]
            ELSE [route |-> "predict_risk", status |-> 200,
                  result |-> [det_prob |-> det_prob, readm_prob |-> readm_prob,
                              det_status |-> RiskStatus(det_prob),
                              readm_status |-> RiskStatus(readm_prob)]]
    /\ UNCHANGED persistent

\* the URL map of the Patient app (@app.route, lines 651-661): the view that
\* serves a PATH_INFO; an empty PATH_INFO is matched as "/"
PatientRoutes(path_info, method) ==
    IF path_info \in {<< >>, <<"">>}
    THEN IF method = "GET" THEN "index" ELSE "405"
    ELSE IF path_info = <<"Patient">>
    THEN IF method = "GET" THEN "patient_page" ELSE "405"
    ELSE IF path_info = <<"predict">>
    THEN IF method = "POST" THEN "predict_risk" ELSE "405"
    ELSE "404"

\* the URL map of the Home app, for the methods a form can send
HomeRoutes(path_info, method) ==
    IF path_info \in {<< >>, <<"">>}
    THEN IF method = "GET" THEN "home" ELSE "405"
    ELSE IF path_info = <<"login">> THEN "admin_login"
    ELSE IF path_info = <<"admin">>
    THEN IF method = "GET" THEN "admin_panel" ELSE "405"
    ELSE IF path_info = <<"admin", "logout">>
    THEN IF method = "GET" THEN "admin_logout" ELSE "405"
    ELSE IF path_info = <<"api", "appointment">>
    THEN IF method = "POST" THEN "save_appointment" ELSE "405"
    ELSE IF path_info = <<"api", "appointments">>
    THEN IF method = "GET" THEN "get_appointments" ELSE "405"
    ELSE "404"

Endpoint(app, path_info, method) ==
    IF app = "patient_app" THEN PatientRoutes(path_info, method)
    ELSE IF app = home_app THEN HomeRoutes(path_info, method)
    ELSE "view of another app"

\* HTML_PAGE line 456: <form action="/predict" method="post">
FormAction == [absolute |-> TRUE, segs |-> <<"predict">>]

\* how a browser resolves a form action against the URL of the page: a
\* reference that starts with "/" replaces the whole path, any other one
\* replaces the last segment
ResolveAction(base, action) ==
    IF action.absolute \/ base = << >> THEN action.segs
    ELSE SubSeq(base, 1, Len(base) - 1) \o action.segs

\* the last request was answered by the Patient app with HTML_PAGE
ShowsPatientForm(r) ==
    /\ r.app = "patient_app"
    /\ \/ PatientRoutes(r.path_info, "GET") \in {"index", "patient_page"}
       \/ PatientRoutes(r.path_info, "POST") = "predict_risk"

\* the user submits the Patient Risk form of the page the dispatcher served:
\* the browser POSTs to the resolved action, the dispatcher picks the app and
\* the app's URL map picks the view
submit_patient_form ==
    /\ Idle
    /\ ShowsPatientForm(routed)
    /\ LET url  == ResolveAction(routed.path, FormAction)
           r    == application(url)
           view == Endpoint(r.app, r.path_info, "POST")
       IN  /\ routed' = [path |-> url] @@ r
           /\ response' = [route |-> "submit_patient_form", page |-> routed.path,
                           url |-> url, app |-> r.app, view |-> view,
                           status |-> IF view = "404" THEN 404
                                      ELSE IF view = "405" THEN 405 ELSE 200]
    /\ UNCHANGED <<tables, homeVars, modelVars, imageVars, chatVars>>

(***************************************************************************)
(* Patient_Clustering/patient_cluster.py                                   *)
(***************************************************************************)
mappings ==
    [General_Health |-> ("Poor" :> 0) @@ ("Fair" :> 1) @@ ("Good" :> 2)
                        @@ ("Very Good" :> 3) @@ ("Excellent" :> 4),
     Checkup |-> ("Within the past year" :> 4) @@ ("Within the past 2 years" :> 3)
                 @@ ("Within the past 5 years" :> 2) @@ ("5 or more years ago" :> 1)
                 @@ ("Never" :> 0),
     Age_Category |-> ("18-24" :> 0) @@ ("25-29" :> 1) @@ ("30-34" :> 2)
                      @@ ("35-39" :> 3) @@ ("40-44" :> 4) @@ ("45-49" :> 5)
                      @@ ("50-54" :> 6) @@ ("55-59" :> 7) @@ ("60-64" :> 8)
                      @@ ("65-69" :> 9) @@ ("70-74" :> 10) @@ ("75-79" :> 11)
                      @@ ("80+" :> 12),
     Diabetes |-> ("No" :> 0) @@ ("No, pre-diabetes or borderline diabetes" :> 1)
                  @@ ("Yes, but female told only during pregnancy" :> 1)
                  @@ ("Yes" :> 2)]

categorical_Binary == {"Exercise", "Sex", "Smoking_History"}

\* label_encoders[col].classes_: the fitted encoders come from
\* label_encoders.pkl; a LabelEncoder keeps its classes sorted
LabelClasses ==
    [Exercise |-> <<"No", "Yes">>, Sex |-> <<"Female", "Male">>,
     Smoking_History |-> <<"No", "Yes">>]

\* LabelEncoder.transform([v])[0]: the index of v, ValueError for an unseen v
LabelKnown(col, v) == \E i \in 1..Len(LabelClasses[col]) : LabelClasses[col][i] = v
LabelTransform(col, v) ==
    (CHOOSE i \in 1..Len(LabelClasses[col]) : LabelClasses[col][i] = v) - 1

\* Series.map(dict): a value that is not a key becomes NaN
SeriesMap(table, key) == IF key \in DOMAIN table THEN table[key] ELSE NaN

\* scaler.transform: the fitted scaler comes from scaler.pkl; it is a fixed
\* function of the row and is left uninterpreted
scaler_transform(row) == [scaled |-> row]

Clusters == {0, 7}

ClusterForms ==
    [general_health : {"Poor", "Excellent", "Unlisted"},
     checkup : {"Never", "Within the past year"},
     exercise : {"Yes", "No", "Maybe"}, sex : {"Male", "Female"},
     age : {"18-24", "80+"}, height : {170}, weight : {70, 95},
     smoking : {"Yes", "No"}, alcohol : {0, 4}, fruit : {30}, veg : {12},
     fries : {4}]

\* round(weight / ((height / 100) ** 2), 2), in hundredths
BMI100(form) ==
    (2 * form.weight * 1000000 + form.height * form.height)
        \div (2 * form.height * form.height)

\* lines 63-64: the label encoders raise on a value they were not fitted on
PreprocessRaises(form) ==
    \/ ~ LabelKnown("Exercise", form.exercise)
    \/ ~ LabelKnown("Sex", form.sex)
    \/ ~ LabelKnown("Smoking_History", form.smoking)

\* lines 62-73 applied to the row of lines 90-104, with the lookup tables T;
\* Height_(cm) and Weight_(kg) are dropped
ClusterEncode(T, form) ==
    scaler_transform(
        << SeriesMap(T.mappings.General_Health, form.general_health),
           SeriesMap(T.mappings.Checkup, form.checkup),
           LabelTransform("Exercise", form.exercise),
           LabelTransform("Sex", form.sex),
           SeriesMap(T.mappings.Age_Category, form.age),
           BMI100(form),
           LabelTransform("Smoking_History", form.smoking),
           form.alcohol, form.fruit, form.veg, form.fries >>)

preprocess_input(form) == ClusterEncode(tables, form)

\* the response of predict for a form
ClusterResponse(form, defect, predict, cluster_prediction) ==
    IF defect # "none"
    THEN [route |-> "cluster.predict", status |-> 200, json |-> [error |-> defect]]
    ELSE IF PreprocessRaises(form)
    THEN [route |-> "cluster.predict", status |-> 200, form |-> form,
          json |-> [error |-> "ValueError: unseen label"]]
    ELSE IF predict = "raises"
    THEN [route |-> "cluster.predict", status |-> 200, form |-> form,
          features |-> preprocess_input(form), json |-> [error |-> "predict"]]
    ELSE [route |-> "cluster.predict", status |-> 200, form |-> form,
          features |-> preprocess_input(form),
          template |-> "results.html", cluster |-> cluster_prediction + 1]

\* a handler that learns a code for a General_Health value it has not seen
cluster_predict_learning ==
    /\ Idle
    /\ "cluster" \in up
    /\ \E form \in ClusterForms, defect \in FormDefects,
          predict \in {"raises", "returns"}, cluster_prediction \in Clusters :
        /\ response' = ClusterResponse(form, defect, predict, cluster_prediction)
        /\ tables' = [tables EXCEPT !.mappings.General_Health =
                          @ @@ (form.general_health :> Cardinality(DOMAIN @))]
    /\ UNCHANGED <<routed, homeVars, modelVars, imageVars, chatVars>>

\* POST /predict of the Cluster app: the whole body is inside try, and an
\* exception is answered with a JSON error
cluster_predict ==
    /\ Idle
    /\ "cluster" \in up
    /\ \E form \in ClusterForms, defect \in FormDefects,
          predict \in {"raises", "returns"}, cluster_prediction \in Clusters :
        response' = ClusterResponse(form, defect, predict, cluster_prediction)
    /\ UNCHANGED persistent

(***************************************************************************)
(* Med-GPT(Chatbot)/app.py and clinical_backend.py                         *)
(***************************************************************************)
MaxTextLen == 2
MaxPosts   == 2

\* text is a sequence of tokens; " " is whitespace
Tokens == {" ", "a"}
Texts  == UNION { [1..n -> Tokens] : n \in 0..MaxTextLen }

RECURSIVE LStrip(_)
LStrip(t) == IF t # << >> /\ Head(t) = " " THEN LStrip(Tail(t)) ELSE t

RECURSIVE RStrip(_)
RStrip(t) ==
    IF t # << >> /\ t[Len(t)] = " " THEN RStrip(SubSeq(t, 1, Len(t) - 1)) ELSE t

\* str.strip()
Strip(t) == RStrip(LStrip(t))

\* what os.getenv("OPENROUTER_API_KEY") can yield after load_dotenv()
EnvKeys == {None, "", "sk-or-v1-0123456789"}

dummy_chunks == 4

\* line 18: OPENROUTER_API_KEY = os.getenv("OPENROUTER_API_KEY")
chat_getenv ==
    /\ boot.pc = "getenv"
    /\ \E key \in EnvKeys :
           boot' = [boot EXCEPT !.pc = "print", !.OPENROUTER_API_KEY = key]
    /\ UNCHANGED <<routed, tables, homeVars, response, modelVars, imageVars, http_posts>>

\* line 22: print("API key starts with:", os.getenv("OPENROUTER_API_KEY")[:10])
chat_print_key ==
    /\ boot.pc = "print"
    /\ boot' = IF boot.OPENROUTER_API_KEY = None
               THEN [boot EXCEPT !.pc = "failed",
                                 !.error = "TypeError: 'NoneType' object is not subscriptable"]
               ELSE [boot EXCEPT !.pc = "check"]
    /\ UNCHANGED <<routed, tables, homeVars, response, modelVars, imageVars, http_posts>>

\* lines 24-25: if not OPENROUTER_API_KEY: raise ValueError(...)
chat_check_key ==
    /\ boot.pc = "check"
    /\ boot' = IF ~ Truthy(boot.OPENROUTER_API_KEY)
               THEN [boot EXCEPT !.pc = "failed",
                                 !.error = "ValueError: OPENROUTER_API_KEY not found in .env file"]
               ELSE [boot EXCEPT !.pc = "rag"]
    /\ UNCHANGED <<routed, tables, homeVars, response, modelVars, imageVars, http_posts>>

\* line 29: rag = ClinicalRAG(); loading the embedding model may raise
chat_init_rag ==
    /\ boot.pc = "rag"
    /\ \/ boot' = [boot EXCEPT !.pc = "ingest", !.rag = "ClinicalRAG"]
       \/ boot' = [boot EXCEPT !.pc = "failed", !.error = "OSError"]
    /\ UNCHANGED <<routed, tables, homeVars, response, modelVars, imageVars, http_posts>>

\* line 38: rag.ingest_data(dummy_chunks)
chat_ingest ==
    /\ boot.pc = "ingest"
    /\ boot' = [boot EXCEPT !.pc = "serving", !.chunks = dummy_chunks]
    /\ UNCHANGED <<routed, tables, homeVars, response, modelVars, imageVars, http_posts>>

\* what requests.post can do: fail in transport, or deliver a status with a
\* body that either is the expected JSON carrying `content` or is not
StatusCodes == {200, 401, 500}
HttpOutcomes ==
    {[transport |-> "error"]}
    \cup [transport : {"ok"}, status : StatusCodes \ {200}]
    \cup [transport : {"ok"}, status : {200}, json : {"malformed"}]
    \cup [transport : {"ok"}, status : {200}, json : {"ok"}, content : Texts]

OpenRouterError == <<"Error fetching response from OpenRouter.">>

\* a client that posts a second time when the first attempt did not give 200
call_openrouter_retry(http) ==
    IF http.transport = "error"
    THEN [posts |-> 2, raised |-> TRUE, value |-> <<"ConnectionError">>]
    ELSE IF http.status = 200
    THEN IF http.json = "malformed"
         THEN [posts |-> 1, raised |-> TRUE, value |-> <<"KeyError">>]
         ELSE [posts |-> 1, raised |-> FALSE, value |-> Strip(http.content)]
    ELSE [posts |-> 2, raised |-> FALSE, value |-> OpenRouterError]

\* ClinicalRAG.call_openrouter: one requests.post, not wrapped in try
call_openrouter(http) ==
    IF http.transport = "error"
    THEN [posts |-> 1, raised |-> TRUE, value |-> <<"ConnectionError">>]
    ELSE IF http.status = 200
    THEN IF http.json = "malformed"
         THEN [posts |-> 1, raised |-> TRUE, value |-> <<"KeyError">>]
         ELSE [posts |-> 1, raised |-> FALSE, value |-> Strip(http.content)]
    ELSE [posts |-> 1, raised |-> FALSE, value |-> OpenRouterError]

\* ClinicalRAG.answer_question: embed, search, then call_openrouter
answer_question(question, embed, http) ==
    IF embed = "raises"
    THEN [posts |-> 0, raised |-> TRUE, value |-> <<"RuntimeError">>, called |-> FALSE]
    ELSE call_openrouter(http) @@ [called |-> TRUE, citations |-> boot.chunks]

\* the JSON a client can send to /ask
AskQueries == {[type |-> "absent"], [type |-> "null"], [type |-> "number"]}
              \cup [type : {"str"}, text : Texts]
AskBodies  == {NoneBody} \cup [json : {"object"}, query : AskQueries]

\* POST /ask
ask ==
    /\ Idle
    /\ boot.pc = "serving"
    /\ http_posts < MaxPosts
    /\ \E body \in AskBodies, embed \in {"ok", "raises"}, http \in HttpOutcomes :
        LET unhandled == [route |-> "ask", body |-> body, status |-> 500,
                          unhandled |-> "AttributeError", rag_calls |-> 0]
        IN  IF body = NoneBody
            THEN \* data.get on None
                 /\ response' = unhandled
                 /\ UNCHANGED http_posts
            ELSE IF body.query.type \notin {"absent", "str"}
            THEN \* .strip() on None or on a number
                 /\ response' = unhandled
                 /\ UNCHANGED http_posts
            ELSE LET raw == IF body.query.type = "absent" THEN << >> ELSE body.query.text
                     user_query == Strip(raw)
                     r == answer_question(user_query, embed, http)
                 IN  IF user_query = << >>
                     THEN /\ response' = [route |-> "ask", body |-> body, status |-> 400,
                                          json |-> [error |-> "Empty query"],
                                          rag_calls |-> 0]
                          /\ UNCHANGED http_posts
                     ELSE /\ response' =
                                 [route |-> "ask", body |-> body, rag_calls |-> 1,
                                  question |-> user_query, embed |-> embed, http |-> http,
                                  rag |-> r,
                                  status |-> IF r.raised THEN 500 ELSE 200,
                                  json |-> IF r.raised
                                           THEN [error |-> "Something went wrong",
                                                 details |-> r.value]
                                           ELSE [answer |-> r.value]]
                          /\ http_posts' = http_posts + r.posts
    /\ UNCHANGED <<routed, tables, homeVars, modelVars, imageVars, boot>>

(***************************************************************************)
(* Patient_discharge_summarizer/summarizer.py                              *)
(***************************************************************************)
\* clean_text: " ".join(text.split())
RECURSIVE Squeeze(_)
Squeeze(t) ==
    IF Len(t) < 2 THEN t
    ELSE IF t[1] = " " /\ t[2] = " " THEN Squeeze(Tail(t))
    ELSE <<t[1]>> \o Squeeze(Tail(t))

clean_text(t) == Squeeze(Strip(t))

SummarizeBodies == {NoneBody} \cup {[json |-> "object"]}
                   \cup [json : {"object"}, text : Texts]

\* a handler that tries to load the pipeline again when it runs on the dummy
summarize_reloading ==
    /\ Idle
    /\ "summarizer" \in up
    /\ \E data \in SummarizeBodies :
        /\ data # NoneBody
        /\ response' = [route |-> "summarize", data |-> data, status |-> 200,
                        json |-> [summary |-> "pipeline"]]
        /\ models' = [models EXCEPT !["summarizer"] = "pipeline"]
    /\ UNCHANGED <<routed, tables, homeVars, imageVars, chatVars, up>>

\* POST /summarize
summarize ==
    /\ Idle
    /\ "summarizer" \in up
    /\ \E data \in SummarizeBodies, outcome \in {"raises", "returns"} :
        response' =
            IF data = NoneBody
            THEN [route |-> "summarize", data |-> data, status |-> 500,
                  unhandled |-> "AttributeError"]
            ELSE LET text == clean_text(IF "text" \in DOMAIN data
                                        THEN data.text ELSE << >>)
                 IN  IF text = << >>
                     THEN [route |-> "summarize", data |-> data, status |-> 400,
                           json |-> [error |-> "No text provided"]]
                     ELSE IF outcome = "raises"
                     THEN [route |-> "summarize", data |-> data, status |-> 500,
                           json |-> [error |-> "exception"]]
                     ELSE [route |-> "summarize", data |-> data, status |-> 200,
                           text |-> text,
                           json |-> [summary |-> models["summarizer"]]]
    /\ UNCHANGED persistent

\* POST /upload
upload_file ==
    /\ Idle
    /\ "summarizer" \in up
    /\ \E filename \in {"", "report.pdf", "notes.txt"}, content \in Texts,
          outcome \in {"raises", "returns"} :
        response' =
            IF filename = ""
            THEN [route |-> "upload_file", filename |-> filename, status |-> 400,
                  json |-> [error |-> "No file uploaded"]]
            ELSE IF outcome = "raises"
            THEN [route |-> "upload_file", filename |-> filename, status |-> 500,
                  json |-> [error |-> "Upload error"]]
            ELSE IF clean_text(content) = << >>
            THEN [route |-> "upload_file", filename |-> filename, status |-> 400,
                  json |-> [error |-> "File contains no readable text"]]
            ELSE [route |-> "upload_file", filename |-> filename, status |-> 200,
                  text |-> clean_text(content),
                  json |-> [summary |-> models["summarizer"]]]
    /\ UNCHANGED persistent

(***************************************************************************)
(* Patient_discharge_summarizer/models/llama_model.py                      *)
(***************************************************************************)
\* LlamaResearchAssistant._generate_llama_response: one requests.post inside
\* try; every exception is logged and re-raised
generate_llama_response(http) ==
    IF http.transport = "error"
    THEN [posts |-> 1, raised |-> TRUE, value |-> <<"ConnectionError">>]
    ELSE IF http.status = 200
    THEN IF http.json = "malformed"
         THEN [posts |-> 1, raised |-> TRUE, value |-> <<"KeyError">>]
         ELSE [posts |-> 1, raised |-> FALSE, value |-> Strip(http.content)]
    ELSE [posts |-> 1, raised |-> TRUE,
          value |-> <<"API request failed with status code">>]

\* one invocation of _generate_llama_response by one of its callers
llama_invocation ==
    /\ Idle
    /\ http_posts < MaxPosts
    /\ \E http \in HttpOutcomes :
        LET r == generate_llama_response(http)
        IN  /\ response' = [route |-> "_generate_llama_response", http |-> http, llm |-> r]
            /\ http_posts' = http_posts + r.posts
    /\ UNCHANGED <<routed, tables, homeVars, modelVars, imageVars, boot>>

(***************************************************************************)
(* Image_Diagnostics/app.py                                                *)
(*                                                                         *)
(* predict_xray and predict_mri run on the threads of the server; each is  *)
(* split where it touches UPLOAD_FOLDER: file.save, Image.open,            *)
(* os.path.exists, os.remove.                                              *)
(***************************************************************************)
Threads   == {"t1", "t2"}
Filenames == {"scan.png", "other.png"}
Images    == {"imgA", "imgB", "corrupt"}

\* request.files.get(...): a FileStorage is falsy when its filename is empty
FileStorages == [filename : {""} \cup Filenames, image : Images]

NoFile  == [owner |-> None, data |-> None]
NoReq   == [pc |-> "idle", kind |-> None, filename |-> None, image |-> None,
            result |-> None]

ImageModel(kind) == IF kind = "xray" THEN models["xray_model"] ELSE models["mri_session"]

\* the class the model gives for the pixels it is shown
Classify(kind, image) ==
    CASE kind = "xray" /\ image = "imgA" -> "Pneumonia"
      [] kind = "xray" /\ image = "imgB" -> "Normal (No Finding)"
      [] kind = "mri"  /\ image = "imgA" -> "MS"
      [] kind = "mri"  /\ image = "imgB" -> "Normal"

\* lines 709-725 / 755-771: up to and including file.save(filepath)
img_begin(t, kind) ==
    /\ "image" \in up
    /\ req[t].pc = "idle"
    /\ \E file \in FileStorages :
        IF ImageModel(kind) = None
        THEN /\ req' = [req EXCEPT ![t] = [NoReq EXCEPT !.pc = "done", !.kind = kind,
                            !.result = "[ERROR] model not loaded. Check server logs."]]
             /\ UNCHANGED uploads
        ELSE IF file.filename = ""
        THEN /\ req' = [req EXCEPT ![t] = [NoReq EXCEPT !.pc = "done", !.kind = kind,
                            !.result = "No file uploaded."]]
             /\ UNCHANGED uploads
        ELSE /\ uploads' = [uploads EXCEPT ![file.filename] =
                               [owner |-> t, data |-> file.image]]
             /\ req' = [req EXCEPT ![t] = [pc |-> "saved", kind |-> kind,
                            filename |-> file.filename, image |-> file.image,
                            result |-> None]]
    /\ UNCHANGED <<routed, tables, homeVars, response, modelVars, chatVars>>

predict_xray_begin(t) == img_begin(t, "xray")
predict_mri_begin(t)  == img_begin(t, "mri")

\* a handler whose clean-up is skipped when prediction raised
AfterTry_success_only(raised) == IF raised THEN "done" ELSE "finally"

\* try/except/finally: the finally clause runs whether or not the try raised
AfterTry(raised) == "finally"

\* lines 727-744 / 773-799: preprocess_image opens the file at filepath, the
\* model classifies what was read; any exception becomes 'Prediction Error'
img_predict(t) ==
    /\ req[t].pc = "saved"
    /\ LET file == uploads[req[t].filename]
           error == IF file = NoFile THEN "Prediction Error: FileNotFoundError"
                    ELSE IF file.data = "corrupt"
                    THEN "Prediction Error: UnidentifiedImageError"
                    ELSE None
       IN  req' = [req EXCEPT ![t].pc = AfterTry(error # None),
                              ![t].result = IF error # None THEN error
                                            ELSE Classify(req[t].kind, file.data)]
    /\ UNCHANGED <<routed, tables, homeVars, response, modelVars, chatVars, uploads>>

\* lines 747 / 802: if os.path.exists(filepath)
img_exists(t) ==
    /\ req[t].pc = "finally"
    /\ req' = [req EXCEPT ![t].pc = IF uploads[req[t].filename] # NoFile
                                    THEN "remove" ELSE "done"]
    /\ UNCHANGED <<routed, tables, homeVars, response, modelVars, chatVars, uploads>>

\* lines 748 / 803: os.remove(filepath); raises when the file is gone by now
img_remove(t) ==
    /\ req[t].pc = "remove"
    /\ IF uploads[req[t].filename] # NoFile
       THEN /\ uploads' = [uploads EXCEPT ![req[t].filename] = NoFile]
            /\ req' = [req EXCEPT ![t].pc = "done"]
       ELSE /\ req' = [req EXCEPT ![t].pc = "done",
                                  ![t].result = "500 FileNotFoundError"]
            /\ UNCHANGED uploads
    /\ UNCHANGED <<routed, tables, homeVars, response, modelVars, chatVars>>

\* lines 751 / 806: the redirect is returned and the thread takes the next request
img_return(t) ==
    /\ req[t].pc = "done"
    /\ req' = [req EXCEPT ![t] = NoReq]
    /\ UNCHANGED <<routed, tables, homeVars, response, modelVars, chatVars, uploads>>

(***************************************************************************)
(* Initial state and specifications                                        *)
(***************************************************************************)
\* the module-level dict literals, as written in the sources
StaticTables ==
    [ADMISSION_TYPE_ENCODING |-> ADMISSION_TYPE_ENCODING,
     ADMISSION_LOCATION_ENCODING |-> ADMISSION_LOCATION_ENCODING,
     mappings |-> mappings,
     diagnosis_map |-> diagnosis_map,
     severity_map |-> severity_map]

Init ==
    /\ tables = StaticTables
    /\ routed = [path |-> << >>] @@ application(<< >>)
    /\ session = [s \in Sessions |-> FALSE]
    /\ lastAuth = [s \in Sessions |-> "none"]
    /\ appointments = {}
    /\ sqlite_sequence = 0
    /\ assigned = {}
    /\ response = NoResponse
    /\ models = [g \in AllModelGlobals |-> "unbound"]
    /\ up = {}
    /\ uploads = [f \in Filenames |-> NoFile]
    /\ req = [t \in Threads |-> NoReq]
    /\ boot = [pc |-> "getenv", OPENROUTER_API_KEY |-> "unbound", rag |-> "unbound",
               chunks |-> 0, error |-> None]
    /\ http_posts = 0

NextDispatch == Dispatch
SpecDispatch == Init /\ [][NextDispatch]_vars

NextHome ==
    \/ save_appointment
    \/ get_appointments
    \/ delete_appointment
    \/ admin_login
    \/ admin_panel
    \/ admin_logout
    \/ Deliver
SpecHome == Init /\ [][NextHome]_vars

NextLOS == import_module("los") \/ LOS_index \/ Deliver
SpecLOS == Init /\ [][NextLOS]_vars

NextChat ==
    \/ chat_getenv
    \/ chat_print_key
    \/ chat_check_key
    \/ chat_init_rag
    \/ chat_ingest
    \/ ask
    \/ llama_invocation
    \/ Deliver
SpecChat == Init /\ [][NextChat]_vars

NextImage ==
    \/ import_module("image")
    \/ \E t \in Threads :
        \/ predict_xray_begin(t)
        \/ predict_mri_begin(t)
        \/ img_predict(t)
        \/ img_exists(t)
        \/ img_remove(t)
        \/ img_return(t)
SpecImage == Init /\ [][NextImage]_vars

\* the composed application as wsgi.py serves it: the modules are imported in
\* the order of lines 5-13, then run_simple handles one request at a time
ImportOrder == <<"los", "disease", "patient", "image", "summarizer", "cluster">>

wsgi_import ==
    \E i \in 1..Len(ImportOrder) :
        /\ \A j \in 1..(i - 1) : ImportOrder[j] \in up
        /\ import_module(ImportOrder[i])

Serving == up = Apps /\ req["t1"].pc = "idle"

NextPatientForm ==
    \/ Dispatch
    \/ submit_patient_form
    \/ Deliver
SpecPatientForm == Init /\ [][NextPatientForm]_vars

NextEncode ==
    \/ import_module("los")
    \/ import_module("disease")
    \/ import_module("cluster")
    \/ LOS_index
    \/ disease_predict
    \/ cluster_predict
    \/ Deliver
SpecEncode == Init /\ [][NextEncode]_vars

NextModels ==
    \/ wsgi_import
    \/ Serving /\ LOS_index
    \/ Serving /\ disease_predict
    \/ Serving /\ predict_risk
    \/ Serving /\ cluster_predict
    \/ Serving /\ summarize
    \/ Serving /\ upload_file
    \/ Serving /\ Idle /\ predict_xray_begin("t1")
    \/ Serving /\ Idle /\ predict_mri_begin("t1")
    \/ img_predict("t1")
    \/ img_exists("t1")
    \/ img_remove("t1")
    \/ img_return("t1")
    \/ Deliver
SpecModels == Init /\ [][NextModels]_vars

Next == NextDispatch \/ NextHome \/ NextLOS \/ NextChat \/ NextImage \/ NextModels
            \/ NextEncode \/ NextPatientForm
Spec == Init /\ [][Next]_vars

(***************************************************************************)
(* Properties                                                              *)
(***************************************************************************)
IsPrefix(k, path) == Len(k) <= Len(path) /\ SubSeq(path, 1, Len(k)) = k

\* C1: every request path is handed to exactly one app: the app mounted at
\* the prefix P such that the path equals P or starts with P followed by "/",
\* which sees the path with P removed; a path matching no prefix goes to the
\* home app with its path unchanged.  The eight prefixes are pairwise
\* distinct, none is a path-segment prefix of another, and each names its
\* own app, so the choice is never ambiguous.
C1_DispatchExactlyOne ==
    LET path     == routed.path
        matching == { k \in MountKeys : IsPrefix(k, path) }
    IN  /\ Cardinality(MountKeys) = 8
        /\ \A k1, k2 \in MountKeys : k1 # k2 =>
               /\ ~ IsPrefix(k1, k2)
               /\ Mounts[k1[1]] # Mounts[k2[1]]
        /\ \A k \in MountKeys : Mounts[k[1]] # home_app
        /\ Cardinality(matching) <= 1
        /\ \A k \in matching :
               /\ routed.app = Mounts[k[1]]
               /\ routed.script_name = k
               /\ routed.path_info = SubSeq(path, Len(k) + 1, Len(path))
        /\ matching = {} =>
               /\ routed.app = home_app
               /\ routed.path_info = path

C1_Witness ==
    /\ routed.path = <<"LOS", "predict">>
    /\ routed.app = "los_app"
    /\ routed.path_info = <<"predict">>

\* C2: in every session the admin flag is set exactly when a POST /login with
\* admin/admin123 has occurred with no /admin/logout after it, and a request
\* to /admin runs the dashboard body only when the flag is set; in any other
\* state it is answered with a redirect to the login page and reads nothing.
C2_AdminSecured ==
    /\ \A s \in Sessions : session[s] <=> lastAuth[s] = "login"
    /\ response.route = "admin_panel" =>
           IF session[response.session]
           THEN response.status = 200 /\ response.body_ran
           ELSE /\ response.status = 302
                /\ response.location = "admin_login"
                /\ ~ response.body_ran
                /\ response.rows = {}

C2_Witness ==
    /\ response.route = "admin_panel"
    /\ response.session = "s1"
    /\ ~ response.body_ran
    /\ lastAuth["s1"] = "logout"
    /\ session["s2"]
    /\ appointments # {}

\* C3 (as claimed): every POST /api/appointment whose body lacks any of name,
\* date, time, reason (key absent, null, empty string, or no JSON object at
\* all) is answered with status 400 and the message 'Missing data'.
Incomplete(data) ==
    IF data = NoneBody THEN TRUE
    ELSE ~ (Truthy(data.name) /\ Truthy(data.date)
            /\ Truthy(data.time) /\ Truthy(data.reason))

C3_MissingDataRejected ==
    (response.route = "save_appointment" /\ Incomplete(response.data)) =>
        /\ response.status = 400
        /\ response.message = "Missing data"

\* C5: a POST to the LOS handler always renders index.html: with any of the
\* eight fields absent or empty the page shows 'Please fill all fields' and
\* model.predict is not called; when age conversion or prediction raises it
\* shows 'Prediction failed'; otherwise model.predict is called exactly once
\* and the page shows 'Predicted Length of Stay'.
C5_LOSNeverFails ==
    (response.route = "LOS.index" /\ response.method = "POST") =>
        /\ response.status = 200
        /\ response.template = "index.html"
        /\ IF \E f \in LOSFields : response.form[f] \in {None, ""}
           THEN /\ response.prediction = "Please fill all fields"
                /\ response.predict_calls = 0
           ELSE IF response.form.age \notin NumericTexts
           THEN /\ response.prediction = "Prediction failed"
                /\ response.predict_calls = 0
           ELSE /\ response.predict_calls = 1
                /\ response.prediction =
                       IF "error" \in DOMAIN response
                       THEN "Prediction failed" ELSE "Predicted Length of Stay"

C5_Witness ==
    /\ response.route = "LOS.index"
    /\ response.method = "POST"
    /\ response.prediction = "Predicted Length of Stay"
    /\ response.form.admission_type = "UNLISTED"

\* C6 (as claimed): every request to /ask has one of three outcomes: a
\* missing, empty or whitespace-only query gives 400 'Empty query' without
\* invoking answer_question; an exception of answer_question gives 500
\* 'Something went wrong' with the exception text in 'details'; otherwise
\* 200 with a body holding exactly the field 'answer'.
QueryBlank(body) ==
    IF body = NoneBody THEN TRUE
    ELSE CASE body.query.type = "absent" -> TRUE
           [] body.query.type = "null"   -> TRUE
           [] body.query.type = "number" -> FALSE
           [] body.query.type = "str"    -> Strip(body.query.text) = << >>

C6_AskThreeOutcomes ==
    response.route = "ask" =>
        IF QueryBlank(response.body)
        THEN /\ response.status = 400
             /\ "json" \in DOMAIN response
             /\ response.json = [error |-> "Empty query"]
             /\ response.rag_calls = 0
        ELSE IF response.rag_calls = 1 /\ response.rag.raised
        THEN /\ response.status = 500
             /\ response.json = [error |-> "Something went wrong",
                                 details |-> response.rag.value]
        ELSE /\ response.status = 200
             /\ "json" \in DOMAIN response
             /\ DOMAIN response.json = {"answer"}

\* C8 (as claimed): with OPENROUTER_API_KEY not set, start-up of the Med-GPT
\* app fails with ValueError 'OPENROUTER_API_KEY not found in .env file',
\* before the ClinicalRAG pipeline is initialised or any chunk is ingested.
C8_MissingKeyValueError ==
    (boot.pc = "failed" /\ boot.OPENROUTER_API_KEY = None) =>
        /\ boot.error = "ValueError: OPENROUTER_API_KEY not found in .env file"
        /\ boot.rag = "unbound"
        /\ boot.chunks = 0

HttpFailed(http) == IF http.transport = "error" THEN TRUE ELSE http.status # 200

\* C9 (as claimed): each invocation issues at most one POST, and after a
\* non-200 status or a transport error call_openrouter returns the fixed
\* string 'Error fetching response from OpenRouter.' while
\* _generate_llama_response raises.
C9_FixedStringOnAnyFailure ==
    /\ (response.route = "ask" /\ response.rag_calls = 1 /\ response.rag.called
        /\ HttpFailed(response.http)) =>
           /\ response.rag.posts <= 1
           /\ ~ response.rag.raised
           /\ response.rag.value = OpenRouterError
    /\ (response.route = "_generate_llama_response" /\ HttpFailed(response.http)) =>
           /\ response.llm.posts <= 1
           /\ response.llm.raised

\* C9 (amended): every invocation of call_openrouter and of
\* _generate_llama_response sends exactly one POST and never a second one;
\* after a non-200 status call_openrouter returns the fixed string, after a
\* transport error it raises, and _generate_llama_response raises after
\* either.
C9_NoRetry ==
    [][ /\ http_posts' - http_posts \in {0, 1}
        /\ (response = NoResponse /\ response'.route = "ask"
            /\ response'.rag_calls = 1 /\ response'.rag.called) =>
               /\ http_posts' = http_posts + 1
               /\ IF response'.http.transport = "error"
                  THEN response'.rag.raised
                  ELSE response'.http.status # 200 =>
                           /\ ~ response'.rag.raised
                           /\ response'.rag.value = OpenRouterError
        /\ (response = NoResponse /\ response'.route = "_generate_llama_response") =>
               /\ http_posts' = http_posts + 1
               /\ HttpFailed(response'.http) => response'.llm.raised
      ]_vars

C9_Witness ==
    /\ response.route = "ask"
    /\ response.rag_calls = 1
    /\ response.rag.called
    /\ response.http.transport = "error"
    /\ response.status = 500
    /\ http_posts = 2

\* what a request gives when no other request runs beside it
AloneResult(r) ==
    IF ImageModel(r.kind) = None THEN "[ERROR] model not loaded. Check server logs."
    ELSE IF r.filename = None THEN "No file uploaded."
    ELSE IF r.image = "corrupt" THEN "Prediction Error: UnidentifiedImageError"
    ELSE Classify(r.kind, r.image)

\* C4 (as claimed): handlers share no mutable state other than SQLite rows,
\* so every predict_xray / predict_mri request ends with the outcome it
\* would have had running alone: the prediction for its own image, and no
\* 'Prediction Error' caused by another request with the same file name.
C4_OutcomeAsIfAlone ==
    \A t \in Threads : req[t].pc = "done" => req[t].result = AloneResult(req[t])

\* C7: once a prediction request that saved an upload has returned, the file
\* it wrote no longer exists, whether inference succeeded or raised; with no
\* request in progress the upload folder is empty.
C7_UploadsCleanedUp ==
    /\ \A t \in Threads : req[t].pc \in {"done", "idle"} =>
           \A f \in Filenames : uploads[f].owner # t
    /\ (\A t \in Threads : req[t].pc \in {"done", "idle"}) =>
           \A f \in Filenames : uploads[f] = NoFile

C7_Witness ==
    /\ req["t1"].pc = "done"
    /\ req["t1"].result = "Prediction Error: UnidentifiedImageError"
    /\ req["t2"].pc = "done"
    /\ req["t2"].filename = req["t1"].filename
    /\ req["t2"].result = "Pneumonia"

\* C10: model artifacts are loaded once, when their module is imported, and
\* never again: no request handler assigns, reloads or clears a model global,
\* so each has after every sequence of requests the value it had when the
\* first request arrived.
C10_ModelsLoadedOnce ==
    [][ \A a \in up : \A g \in ModelGlobals(a) : models'[g] = models[g] ]_vars

C10_Witness ==
    /\ up = Apps
    /\ models["summarizer"] = "dummy"
    /\ models["xray_model"] = None
    /\ models["MODELS_LOADED"] = "True"
    /\ response.route = "summarize"
    /\ response.status = 200

\* C11: feature encoding is a stateless function of the submitted form: the
\* LOS, Disease and Cluster handlers never modify the static lookup tables,
\* and the feature vector of every request is the encoding of its form under
\* the tables as written in the source, whatever was handled before; hence
\* two requests with identical forms get identical vectors.
C11_EncodingStateless ==
    /\ tables = StaticTables
    /\ ("features" \in DOMAIN response) =>
          response.features =
              CASE response.route = "LOS.index" -> LOSEncode(StaticTables, response.form)
                [] response.route = "disease_predict" -> DiseaseFeatures(response.form)
                [] response.route = "cluster.predict" ->
                       ClusterEncode(StaticTables, response.form)

C11_Witness ==
    /\ response.route = "cluster.predict"
    /\ "features" \in DOMAIN response
    /\ response.form.general_health = "Unlisted"
    /\ response.features.scaled[1] = NaN
    /\ up = {"los", "disease", "cluster"}

\* C12: appointment lifecycle.  A successful save_appointment adds exactly
\* one row, holding the four submitted values, and changes no other row;
\* get_appointments returns every row in the table; a row leaves the table
\* only by a delete_appointment with its id, which removes that row and no
\* other; a delete_appointment whose id matches no row changes nothing; every
\* delete_appointment answers 200 with the 'deleted successfully' message.
C12_AppointmentLifecycle ==
    [][ /\ (response'.route = "save_appointment" /\ response'.status = 200) =>
              \E r \in appointments' :
                  /\ r \notin appointments
                  /\ r.id \notin RowIds
                  /\ appointments' = appointments \cup {r}
                  /\ r.name = response'.data.name
                  /\ r.date = response'.data.date
                  /\ r.time = response'.data.time
                  /\ r.reason = response'.data.reason
        /\ (response'.route = "save_appointment" /\ response'.status # 200) =>
              appointments' = appointments
        /\ response'.route = "get_appointments" => response'.rows = appointments
        /\ response'.route = "delete_appointment" =>
              /\ appointments' = { r \in appointments : r.id # response'.id }
              /\ Cardinality(appointments \ appointments') <= 1
              /\ response'.id \notin RowIds => appointments' = appointments
              /\ response'.status = 200
              /\ response'.message = "deleted successfully"
        /\ response'.route \notin {"save_appointment", "delete_appointment"} =>
              appointments' = appointments
      ]_vars

C12_Witness ==
    /\ response.route = "delete_appointment"
    /\ response.id \notin assigned
    /\ Cardinality(appointments) = 2

\* C13: stored appointments are read or deleted only by a logged-in session:
\* a response that carries stored appointment rows goes to a session whose
\* admin_logged_in flag is set, and a request that removes a row comes from
\* such a session.
C13_AppointmentsAdminOnly ==
    [][ /\ (/\ response'.route \in {"get_appointments", "admin_panel"}
            /\ response'.rows # {}) => session[response'.session]
        /\ (appointments' # appointments /\ appointments' \subseteq appointments) =>
              session[response'.session]
      ]_vars

\* C14: appointment ids are never reused: the id given to a new appointment
\* was never given to an earlier one, also after the appointment with the
\* highest id has been deleted; ids in the table are unique, so a delete
\* removes only the appointment that was given the id it carries.
C14_IdsNeverReused ==
    [][ /\ \A r \in appointments' \ appointments : r.id \notin assigned
        /\ \A r1, r2 \in appointments' : r1.id = r2.id => r1 = r2
        /\ response'.route = "delete_appointment" =>
              \A r \in appointments \ appointments' : r.id = response'.id
      ]_vars

C14_Witness ==
    /\ response.route = "save_appointment"
    /\ response.status = 200
    /\ RowIds = {2}
    /\ assigned = {1, 2}

\* C15: admin_login sets admin_logged_in in exactly one case, a POST with
\* admin/admin123 from a session that is not logged in, and then redirects to
\* the admin panel; a POST with other credentials leaves the flag unset and
\* returns the login page with the invalid-credentials error; a request from
\* a logged-in session is redirected to the admin panel without its
\* credentials being examined and leaves the flag set; no other session's
\* flag changes.
C15_AdminLoginFrame ==
    [][ response'.route = "admin_login" =>
          LET s == response'.session
              good == /\ response'.method = "POST"
                      /\ response'.username = "admin"
                      /\ response'.password = "admin123"
          IN  /\ \A t \in Sessions \ {s} : session'[t] = session[t]
              /\ session'[s] # session[s] => (~ session[s] /\ good)
              /\ session[s] =>
                    /\ session'[s]
                    /\ response'.status = 302
                    /\ response'.location = "admin_panel"
                    /\ ~ response'.examined
              /\ (~ session[s] /\ good) =>
                    /\ session'[s]
                    /\ response'.status = 302
                    /\ response'.location = "admin_panel"
              /\ (~ session[s] /\ response'.method = "POST" /\ ~ good) =>
                    /\ ~ session'[s]
                    /\ response'.status = 200
                    /\ response'.template = "login.html"
                    /\ response'.error = "Invalid username or password"
      ]_vars

C15_Witness ==
    /\ response.route = "admin_login"
    /\ response.method = "POST"
    /\ response.username = "guest"
    /\ session[response.session]
    /\ response.status = 302
    /\ ~ response.examined

\* C16: served through the dispatcher, the POST issued by submitting the
\* Patient Risk form goes to the patient app and is handled by predict_risk.
C16_PatientFormReachesPredictRisk ==
    response.route = "submit_patient_form" =>
        /\ response.app = "patient_app"
        /\ response.view = "predict_risk"

\* C17: the LOS one-hot encoding is well formed for every submitted
\* combination: the vector has 11 components in a fixed order; the insurance
\* columns are never both 1 and both 0 for Medicaid; at most one marital
\* column is 1 and all are 0 for DIVORCED; language_OTHERS is 0 exactly for
\* ENGLISH, gender_M is 1 exactly for male, drg_type_HCFA is 1 exactly for
\* HCFA; an admission type or location that is not a key of its table is
\* encoded as 0 and a listed one as its table value.
C17_LOSOneHotWellFormed ==
    (response.route = "LOS.index" /\ "features" \in DOMAIN response) =>
        LET f    == response.features
            form == response.form
            Bit(b) == IF b THEN 1 ELSE 0
        IN  /\ Len(f) = 11
            /\ f[1] = IF form.admission_type \in DOMAIN ADMISSION_TYPE_ENCODING
                      THEN ADMISSION_TYPE_ENCODING[form.admission_type] ELSE 0
            /\ f[2] = IF form.admission_location \in DOMAIN ADMISSION_LOCATION_ENCODING
                      THEN ADMISSION_LOCATION_ENCODING[form.admission_location] ELSE 0
            /\ f[3] = Float(form.age)
            /\ f[4] = Bit(form.insurance = "Medicare")
            /\ f[5] = Bit(form.insurance = "Other")
            /\ ~ (f[4] = 1 /\ f[5] = 1)
            /\ form.insurance = "Medicaid" => (f[4] = 0 /\ f[5] = 0)
            /\ f[6] = Bit(form.language # "ENGLISH")
            /\ f[7] = Bit(form.marital_status = "MARRIED")
            /\ f[8] = Bit(form.marital_status = "SINGLE")
            /\ f[9] = Bit(form.marital_status = "WIDOWED")
            /\ f[7] + f[8] + f[9] <= 1
            /\ form.marital_status = "DIVORCED" => f[7] + f[8] + f[9] = 0
            /\ f[10] = Bit(form.drg_type = "HCFA")
            /\ f[11] = Bit(form.gender = "male")

C17_Witness ==
    /\ response.route = "LOS.index"
    /\ "features" \in DOMAIN response
    /\ response.form.admission_type = "UNLISTED"
    /\ response.form.admission_location = "PACU"
    /\ response.form.insurance = "Medicaid"
    /\ response.form.marital_status = "DIVORCED"
    /\ response.features[1] = 0
    /\ response.features[2] = 39633448

\* bmi >= tenths / 10, for the bmi computed from the form
BmiAtLeast(form, tenths) ==
    /\ form.weight # NaN
    /\ form.weight * 100000 >= tenths * form.height * form.height

\* C18: the Disease app's derived features are mutually consistent for every
\* input: the BMI category is Underweight exactly for bmi < 18.5, Normal for
\* 18.5 <= bmi < 25, Overweight for 25 <= bmi < 30 and Obese for bmi >= 30;
\* at most one of the three BMI columns is 1 and all are 0 exactly for
\* Normal; sex_Male and sex_Other are never both 1; age_creatinine_risk = 1
\* implies high_creatinine_flag = 1; abnormal_bp_flag = 1 iff systolic > 140
\* or diastolic > 90; comorbidity_count = diabetes + hypertension.
C18_DiseaseFeaturesConsistent ==
    (response.route = "disease_predict" /\ "features" \in DOMAIN response) =>
        LET f    == response.features
            form == response.form
            cols == f.BMI_Category_Obese + f.BMI_Category_Overweight
                    + f.BMI_Category_Underweight
        IN  /\ f.bmi_category = "Underweight" <=> BmiBelow(form, 185)
            /\ f.bmi_category = "Normal" <=>
                   (BmiAtLeast(form, 185) /\ BmiBelow(form, 250))
            /\ f.bmi_category = "Overweight" <=>
                   (BmiAtLeast(form, 250) /\ BmiBelow(form, 300))
            /\ f.bmi_category = "Obese" <=> BmiAtLeast(form, 300)
            /\ cols <= 1
            /\ cols = 0 <=> f.bmi_category = "Normal"
            /\ ~ (f.sex_Male = 1 /\ f.sex_Other = 1)
            /\ f.age_creatinine_risk = 1 => f.high_creatinine_flag = 1
            /\ f.abnormal_bp_flag = 1 <=>
                   (form.systolic_bp > 140 \/ form.diastolic_bp > 90)
            /\ f.comorbidity_count = form.diabetes + form.hypertension

====
